---- MODULE Spec2Model ----
(***************************************************************************)
(* ContentEngine: the pipeline engine (backend/core/pipeline_executor.py), *)
(* the project record (backend/models/project.py) and the project store    *)
(* (backend/core/project_manager.py) as state machines.                    *)
(***************************************************************************)
EXTENDS Integers, Sequences, FiniteSets, TLC

VARIABLES
    execution_status,   \* ContentProject.execution_status of the project the engine runs
    updated_at,         \* ContentProject.updated_at
    output_files,       \* ContentProject.output_files
    config_json,        \* the persisted snapshot (config.json) of that project
    kw_file,            \* stage_01_keyword_research/keyword_clusters.csv exists
    clock,              \* wall clock, one tick per call
    result,             \* what the last engine call was, returned and did
    can_run,            \* what the last can_execute_stage call was and returned
    threads,            \* the callers of the engine that run concurrently
    fs,                 \* the projects base directory: folder name -> its config.json
    cache,              \* ProjectManager._project_cache: project id -> record
    store_ret,          \* what the last call of the store was and returned
    used_ids,           \* the ids uuid4 has handed out
    deleted,            \* the ids for which delete_project has returned
    progress_data,      \* ProgressTracker._progress_data: project id -> stage -> update
    callbacks,          \* ProgressTracker._callbacks
    bus_lock,           \* ProgressTracker._lock: the thread that holds it, or free
    publishers,         \* the callers of the tracker: where each is in update_progress
    bus_clock,          \* datetime.now() of the tracker's callers
    bus_ret,            \* the last call of the tracker that returned, and what
    writers,            \* the callers of the record that run concurrently
    progress_callbacks  \* PipelineExecutor.progress_callbacks: the kind of each callback

engine_vars ==
    <<execution_status, updated_at, output_files, config_json, kw_file, clock, result>>

store_vars == <<fs, cache, store_ret, used_ids, deleted>>

bus_vars ==
    <<progress_data, callbacks, bus_lock, publishers, bus_clock, bus_ret>>

writer_vars == <<writers>>

observer_vars == <<progress_callbacks>>

vars ==
    <<execution_status, updated_at, output_files, config_json, kw_file, clock, result,
      can_run, threads, fs, cache, store_ret, used_ids, deleted,
      progress_data, callbacks, bus_lock, publishers, bus_clock, bus_ret,
      writers, progress_callbacks>>

-----------------------------------------------------------------------------
(* Bounds of the model *)

\* number of engine calls in one run (each call happens at a later time)
MaxClock == 2

\* calls of update_progress
MaxPublishes == 2

-----------------------------------------------------------------------------
(* Stage registry *)

stages ==
    <<"keyword_research", "content_briefs", "article_writing",
      "social_media", "youtube_scripts">>

Stages == {stages[i] : i \in 1..Len(stages)}

\* a stage name outside the registry, as a caller may pass it
UNKNOWN_STAGE == "unknown_stage"

StageArgs == Stages \cup {UNKNOWN_STAGE}

StageIndex(stage) == CHOOSE i \in 1..Len(stages) : stages[i] = stage

\* seeded fault: the two final stages are chained
stage_dependencies_chained(stage) ==
    IF stage \in Stages THEN SubSeq(stages, 1, StageIndex(stage) - 1) ELSE <<>>

stage_dependencies(stage) ==
    CASE stage = "keyword_research" -> <<>>
      [] stage = "content_briefs"   -> <<"keyword_research">>
      [] stage = "article_writing"  -> <<"keyword_research", "content_briefs">>
      [] stage = "social_media"     ->
            <<"keyword_research", "content_briefs", "article_writing">>
      [] stage = "youtube_scripts"  ->
            <<"keyword_research", "content_briefs", "article_writing">>
      [] OTHER                      -> <<>>

-----------------------------------------------------------------------------
(* The project record *)

\* completed_at: None
NoTime == -1

\* error: None. Messages are sequences of tokens; the empty one is no message.
NoError == <<>>

InitialStatus == [status |-> "pending", completed_at |-> NoTime, error |-> NoError]

InitialExecutionStatus == [s \in Stages |-> InitialStatus]

InitialOutputFiles ==
    [keyword_research |-> <<>>, content_briefs |-> <<>>, articles |-> <<>>,
     social_media |-> <<>>, youtube |-> <<>>]

\* what save_config writes of the fields that change after the project is created
Snapshot(es, upd, of) ==
    [execution_status |-> es, updated_at |-> upd, output_files |-> of]

\* The state one engine call works on: the record, its snapshot on disk, the
\* keyword file, the events the call has produced so far and the callbacks
\* registered on the engine (none, unless the caller says so).
World(es, upd, of, cfg, kwf, tr) ==
    [es |-> es, updated_at |-> upd, output_files |-> of, config_json |-> cfg,
     kw_file |-> kwf, trace |-> tr, callbacks |-> <<>>]

Event(ev, stage, status, progress) ==
    [ev |-> ev, stage |-> stage, status |-> status, progress |-> progress]

save_config(w) ==
    [w EXCEPT !.config_json = Snapshot(w.es, w.updated_at, w.output_files)]

\* seeded fault: the error message is not stored
update_stage_status_drops_error(w, stage, status, error, now) ==
    IF stage \in DOMAIN w.es
    THEN save_config(
           [w EXCEPT
              !.es[stage] =
                 [status       |-> status,
                  completed_at |-> IF status = "completed" THEN now ELSE @.completed_at,
                  error        |-> @.error],
              !.updated_at = now,
              !.trace = Append(@, Event("status", stage, status, 0))])
    ELSE w

\* seeded fault: a stage name that is not a key gets an entry
update_stage_status_adds_key(w, stage, status, error, now) ==
    save_config(
      [w EXCEPT
         !.es = [s \in DOMAIN w.es \cup {stage} |->
                   [status       |-> status,
                    completed_at |-> NoTime,
                    error        |-> error]] @@ w.es,
         !.updated_at = now,
         !.trace = Append(@, Event("status", stage, status, 0))])

update_stage_status(w, stage, status, error, now) ==
    IF stage \in DOMAIN w.es
    THEN save_config(
           [w EXCEPT
              !.es[stage] =
                 [status       |-> status,
                  completed_at |-> IF status = "completed" THEN now ELSE @.completed_at,
                  error        |-> IF error # NoError THEN error ELSE @.error],
              !.updated_at = now,
              !.trace = Append(@, Event("status", stage, status, 0))])
    ELSE w

\* ContentProject.get_completion_percentage
get_completion_percentage(es) ==
    (Cardinality({s \in DOMAIN es : es[s].status = "completed"}) * 100)
        \div Cardinality(DOMAIN es)

InList(x, list) == \E i \in 1..Len(list) : list[i] = x

add_output_file(w, stage, file_path, now) ==
    IF stage \in DOMAIN w.output_files /\ ~InList(file_path, w.output_files[stage])
    THEN save_config([w EXCEPT !.output_files[stage] = Append(@, file_path),
                               !.updated_at = now])
    ELSE w

\* "plain":  a callback that returns
\* "raises": a callback that raises an exception of class Exception
ObserverKinds == {"plain", "raises"}

\* seeded fault: no try/except around the call, the first exception ends the loop
RECURSIVE call_callbacks_unguarded(_, _, _, _)
call_callbacks_unguarded(w, i, stage, progress) ==
    IF i > Len(w.callbacks)
    THEN w
    ELSE LET called == [w EXCEPT !.trace =
                           Append(@, Event("callback", stage, w.callbacks[i], progress))]
         IN  IF w.callbacks[i] = "raises"
             THEN called
             ELSE call_callbacks_unguarded(called, i + 1, stage, progress)

\* for callback in self.progress_callbacks: the callback is called inside
\* try/except Exception, so the loop goes on whether it returns or raises.
\* The event's status is the kind of the callback that was called.
RECURSIVE call_callbacks(_, _, _, _)
call_callbacks(w, i, stage, progress) ==
    IF i > Len(w.callbacks)
    THEN w
    ELSE call_callbacks(
            [w EXCEPT !.trace =
                Append(@, Event("callback", stage, w.callbacks[i], progress))],
            i + 1, stage, progress)

_notify_progress(w, stage, progress) ==
    call_callbacks([w EXCEPT !.trace = Append(@, Event("notify", stage, "", progress))],
                   1, stage, progress)

-----------------------------------------------------------------------------
(* Stage executors: what an external script or in-process step can do *)

SubprocessStages == {"article_writing", "social_media", "youtube_scripts"}

\* "ok":      the executor did its work
\* "false":   execute_keyword_research returned False after a nonzero exit or
\*            with both output files missing; execute_article_brief caught an
\*            exception and returned False
\* "partial": keyword research wrote keyword_clusters.csv and still returned
\*            False (cluster_summary.csv missing)
\* "missing": the stage's script file does not exist
\* "nonzero": the script exited with a nonzero return code
\* "ok_outputs": the script did its work and left its expected output files in
\*            the project folder
\* "timeout": subprocess.TimeoutExpired: after 3600 seconds in execute_stage,
\*            after 300 seconds in execute_keyword_research
\* "raise":   any other exception of the subprocess branch
Outcomes(stage) ==
    CASE stage = "keyword_research" -> {"ok", "false", "partial", "timeout"}
      [] stage = "content_briefs"   -> {"ok", "false"}
      [] stage \in SubprocessStages ->
            {"ok", "ok_outputs", "missing", "nonzero", "timeout", "raise"}
      [] OTHER                      -> {"missing"}

Failures(stage) == Outcomes(stage) \ {"ok", "ok_outputs"}

AlreadyCompleted(stage)   == <<"Stage", stage, "already completed">>
CompletedOk(stage)        == <<"Stage", stage, "completed successfully">>
KeywordResearchFailed     == <<"Error executing stage:", "Keyword research execution failed">>
ArticleBriefFailed        == <<"Error executing stage:", "Article brief generation failed">>
ScriptNotFound(stage)     == <<"Error executing stage:", "Script not found for stage", stage>>
ScriptFailed              == <<"Script execution failed:", "stderr">>
ScriptTimedOut            == <<"Script execution timed out">>
OtherError                == <<"Error executing stage:", "exception text">>

\* a message mentions a stage when the stage's name is part of its text
Mentions(message, stage) == \E i \in 1..Len(message) : message[i] = stage

\* the dict execute_stage returns; a failure has no "outputs"
Result(success, message, outputs) ==
    [success |-> success, message |-> message, outputs |-> outputs]

Failed(w, stage, message, now) ==
    [w |-> update_stage_status(w, stage, "failed", message, now),
     result |-> Result(FALSE, message, <<>>)]

stage_mapping(stage) ==
    CASE stage = "keyword_research" -> "stage_01_keyword_research"
      [] stage = "content_briefs"   -> "stage_02_content_briefs"
      [] stage = "article_writing"  -> "stage_03_articles"
      [] stage = "social_media"     -> "stage_04_social_media"
      [] stage = "youtube_scripts"  -> "stage_05_youtube"
      [] OTHER                      -> stage

\* stage_scripts[stage]["outputs"]
expected_outputs(stage) ==
    CASE stage = "keyword_research" -> <<"keyword_clusters.csv", "cluster_summary.csv">>
      [] stage = "content_briefs"   -> <<"article_briefs.json", "article_briefs.md">>
      [] stage = "article_writing"  -> <<"article_draft.json", "article_draft.md">>
      [] stage = "social_media"     -> <<"social_posts.json", "social_posts.md">>
      [] stage = "youtube_scripts"  -> <<"youtube_script.json", "youtube_script.md">>
      [] OTHER                      -> <<>>

\* the files found in the project folder are moved and recorded one after the other
RECURSIVE record_outputs(_, _, _, _)
record_outputs(w, stage, files, now) ==
    IF files = <<>>
    THEN w
    ELSE record_outputs(
            add_output_file(w, stage, <<stage_mapping(stage), Head(files)>>, now),
            stage, Tail(files), now)

\* ContentProject.get_stage_files: the files in the stage's folder, for the
\* names that are keys of its stage_map. A folder holds what the executors
\* wrote or moved there: the files the record lists, and keyword_clusters.csv
\* once keyword research has written it.
get_stage_files(w, stage) ==
    IF stage \notin DOMAIN InitialOutputFiles
    THEN <<>>
    ELSE IF w.output_files[stage] # <<>>
    THEN w.output_files[stage]
    ELSE IF stage = "keyword_research" /\ w.kw_file
    THEN << <<stage_mapping(stage), "keyword_clusters.csv">> >>
    ELSE <<>>

\* the subprocess branch's success: status completed, progress 100, the
\* folder's files as outputs
Completed(w, stage, now) ==
    LET w1 == _notify_progress(update_stage_status(w, stage, "completed", NoError, now),
                               stage, 100)
    IN  [w |-> w1, result |-> Result(TRUE, CompletedOk(stage), get_stage_files(w1, stage))]

\* the in-process branches' success: status completed, save_config, the
\* record's files as outputs
CompletedInProcess(w, stage, now) ==
    LET w1 == save_config(update_stage_status(w, stage, "completed", NoError, now))
    IN  [w |-> w1, result |-> Result(TRUE, CompletedOk(stage), w1.output_files[stage])]

\* the lambda handed to the in-process executors forwards every progress value
\* to _notify_progress
RECURSIVE progress_callback(_, _, _)
progress_callback(w, stage, progresses) ==
    IF progresses = <<>>
    THEN w
    ELSE progress_callback(_notify_progress(w, stage, Head(progresses)),
                           stage, Tail(progresses))

execute_keyword_research(w, outcome, now) ==
    LET stage == "keyword_research"
        w1 == [w EXCEPT !.trace = Append(@, Event("executor", stage, "", 0))]
        w2 == progress_callback(w1, stage, <<10, 20, 30, 40>>)
        w3 == [progress_callback(w2, stage, <<80>>) EXCEPT
                  !.kw_file = @ \/ outcome \in {"ok", "partial"}]
        w4 == [w3 EXCEPT !.output_files[stage] =
                            << <<stage_mapping(stage), "keyword_clusters.csv">>,
                               <<stage_mapping(stage), "cluster_summary.csv">> >>]
    IN  CASE outcome = "ok" ->
               CompletedInProcess(progress_callback(w4, stage, <<100>>), stage, now)
          [] outcome = "timeout" ->
               Failed(progress_callback(w2, stage, <<-1>>), stage, KeywordResearchFailed, now)
          [] OTHER ->
               Failed(w3, stage, KeywordResearchFailed, now)

execute_article_brief(w, outcome, now) ==
    LET stage == "content_briefs"
        w1 == [w EXCEPT !.trace = Append(@, Event("executor", stage, "", 0))]
        w2 == progress_callback(w1, stage, <<10>>)
        w3 == progress_callback(w2, stage, <<50>>)
        w4 == [w3 EXCEPT !.output_files[stage] =
                            << <<stage_mapping(stage), "article_brief.md">> >>]
    IN  CASE ~w.kw_file ->
               Failed(progress_callback(w2, stage, <<-1>>), stage, ArticleBriefFailed, now)
          [] outcome = "ok" ->
               CompletedInProcess(progress_callback(w4, stage, <<100>>), stage, now)
          [] OTHER ->
               Failed(progress_callback(w3, stage, <<-1>>), stage, ArticleBriefFailed, now)

_organize_stage_outputs(w, stage, outcome, now) ==
    record_outputs(w, stage,
                   IF outcome = "ok_outputs" THEN expected_outputs(stage) ELSE <<>>, now)

execute_script(w, stage, outcome, now) ==
    IF stage \notin Stages \/ outcome = "missing"
    THEN Failed(w, stage, ScriptNotFound(stage), now)
    ELSE LET w1 == _notify_progress(w, stage, 25)
             w2 == [w1 EXCEPT !.trace = Append(@, Event("executor", stage, "", 0))]
         IN  CASE outcome = "timeout" -> Failed(w2, stage, ScriptTimedOut, now)
               [] outcome = "raise"   -> Failed(w2, stage, OtherError, now)
               [] outcome = "nonzero" ->
                     Failed(_notify_progress(w2, stage, 75), stage, ScriptFailed, now)
               [] OTHER ->
                     Completed(_organize_stage_outputs(_notify_progress(w2, stage, 75),
                                                       stage, outcome, now),
                               stage, now)

\* seeded fault: progress 0 is sent and the status is left as it was
set_running_no_status(w, stage, now) ==
    _notify_progress(w, stage, 0)

\* execute_stage, lines 131-133: the stage is set to running and progress 0 is sent
set_running(w, stage, now) ==
    _notify_progress(update_stage_status(w, stage, "running", NoError, now), stage, 0)

\* execute_stage, lines 135-248: the stage's executor and what follows its outcome
invoke_executor(w, stage, outcome, now) ==
    CASE stage = "keyword_research" -> execute_keyword_research(w, outcome, now)
      [] stage = "content_briefs"   -> execute_article_brief(w, outcome, now)
      [] OTHER                      -> execute_script(w, stage, outcome, now)

\* execute_stage past its check of the status: lines 131-248
run_executor(w, stage, outcome, now) ==
    invoke_executor(set_running(w, stage, now), stage, outcome, now)

\* seeded fault: the check of the stage's status is dropped, every call runs the executor
execute_stage_always(w, stage, force_regenerate, outcome, now) ==
    run_executor(w, stage, outcome, now)

execute_stage(w, stage, force_regenerate, outcome, now) ==
    IF stage \in DOMAIN w.es /\ w.es[stage].status = "completed" /\ ~force_regenerate
    THEN [w |-> w,
          result |-> Result(TRUE, AlreadyCompleted(stage), get_stage_files(w, stage))]
    ELSE run_executor(w, stage, outcome, now)

\* seeded fault: the loop does not stop at a failing stage
RECURSIVE pipeline_loop_no_break(_, _, _, _, _, _)
pipeline_loop_no_break(w, i, force_regenerate, outcomes, now, results) ==
    IF i > Len(stages)
    THEN [w |-> w, results |-> results,
          success |-> \A s \in DOMAIN results : results[s].success]
    ELSE LET stage == stages[i]
             w1 == _notify_progress(w, "pipeline", ((i - 1) * 100) \div Len(stages))
             r  == execute_stage(w1, stage, force_regenerate, outcomes[stage], now)
             rs == [s \in DOMAIN results \cup {stage} |->
                      IF s = stage THEN r.result ELSE results[s]]
         IN  pipeline_loop_no_break(r.w, i + 1, force_regenerate, outcomes, now, rs)

\* the loop of execute_full_pipeline from the i-th stage on
RECURSIVE pipeline_loop(_, _, _, _, _, _)
pipeline_loop(w, i, force_regenerate, outcomes, now, results) ==
    IF i > Len(stages)
    THEN [w |-> w, results |-> results, success |-> TRUE]
    ELSE LET stage == stages[i]
             w1 == _notify_progress(w, "pipeline", ((i - 1) * 100) \div Len(stages))
             r  == execute_stage(w1, stage, force_regenerate, outcomes[stage], now)
             rs == [s \in DOMAIN results \cup {stage} |->
                      IF s = stage THEN r.result ELSE results[s]]
         IN  IF ~r.result.success
             THEN [w |-> r.w, results |-> rs, success |-> FALSE]
             ELSE pipeline_loop(r.w, i + 1, force_regenerate, outcomes, now, rs)

NoResults == [s \in {} |-> Result(TRUE, <<>>, <<>>)]

start_index(start_stage) ==
    IF start_stage \in Stages THEN StageIndex(start_stage) ELSE 1

execute_full_pipeline(w, start_stage, force_regenerate, outcomes, now) ==
    LET l == pipeline_loop(w, start_index(start_stage), force_regenerate, outcomes, now, NoResults)
    IN  [l EXCEPT !.w = _notify_progress(@, "pipeline", 100)]

can_execute_stage(es, stage) ==
    LET deps  == stage_dependencies(stage)
        unmet == {i \in 1..Len(deps) : es[deps[i]].status # "completed"}
    IN  IF unmet = {}
        THEN [ok |-> TRUE, reason |-> <<"Dependencies satisfied">>]
        ELSE LET i == CHOOSE j \in unmet : \A k \in unmet : j <= k
             IN  [ok |-> FALSE,
                  reason |-> <<"Dependency", deps[i], "not completed (status:",
                               es[deps[i]].status, ")">>]

-----------------------------------------------------------------------------
(* The project store: text, folder names and the records on disk *)

\* Text is a sequence of characters.
UpperCase ==
    <<"A", "B", "C", "D", "E", "F", "G", "H", "I", "J", "K", "L", "M",
      "N", "O", "P", "Q", "R", "S", "T", "U", "V", "W", "X", "Y", "Z">>

LowerCase ==
    <<"a", "b", "c", "d", "e", "f", "g", "h", "i", "j", "k", "l", "m",
      "n", "o", "p", "q", "r", "s", "t", "u", "v", "w", "x", "y", "z">>

lower(s) ==
    [i \in 1..Len(s) |->
        IF \E k \in 1..Len(UpperCase) : UpperCase[k] = s[i]
        THEN LowerCase[CHOOSE k \in 1..Len(UpperCase) : UpperCase[k] = s[i]]
        ELSE s[i]]

\* str.replace for a one-character pattern
replace(s, old, new) == [i \in 1..Len(s) |-> IF s[i] = old THEN new ELSE s[i]]

startswith(s, prefix) ==
    /\ Len(prefix) <= Len(s)
    /\ SubSeq(s, 1, Len(prefix)) = prefix

\* sub in s
contains(s, sub) ==
    \E i \in 0..(Len(s) - Len(sub)) : SubSeq(s, i + 1, i + Len(sub)) = sub

\* str(uuid.uuid4()): 36 characters, hyphens after 8, 12, 16 and 20 digits
IdLen == 36

IdPrefixLen == 8

uuid4(digit) == [i \in 1..IdLen |-> IF i \in {9, 14, 19, 24} THEN "-" ELSE digit]

\* the ids uuid4 hands out, in the order it does
Ids == <<uuid4("1"), uuid4("2")>>

\* an id that no project gets
UnknownId == uuid4("0")

ProjectPrefix == <<"p", "r", "o", "j", "e", "c", "t", "-">>

slug(name) == replace(replace(lower(name), " ", "-"), "_", "-")

project_folder_name(project_id, name) ==
    ProjectPrefix \o SubSeq(project_id, 1, IdPrefixLen) \o <<"-">> \o slug(name)

\* the folder name the cache checks look for
expected_dir_name(project_id, name) ==
    ProjectPrefix \o SubSeq(project_id, 1, IdPrefixLen) \o <<"-">>
        \o replace(lower(name), " ", "-")

DefaultConfig ==
    [target_location |-> "India", target_language |-> "en",
     serp_overlap_threshold |-> "0.3", min_search_volume |-> "100",
     max_competition |-> "0.3", content_generator |-> "claude",
     claude_model_preference |-> "quality"]

DefaultInputData ==
    [seed_keywords |-> <<>>, target_audience |-> <<>>, custom_instructions |-> <<>>]

NoPath == <<>>

ContentProject(name, description, project_id, now) ==
    [project_id |-> project_id, name |-> name, description |-> description,
     created_at |-> now, updated_at |-> now,
     config |-> DefaultConfig, input_data |-> DefaultInputData,
     execution_status |-> InitialExecutionStatus,
     output_files |-> InitialOutputFiles,
     project_path |-> NoPath]

NoProject == ContentProject(<<>>, <<>>, <<>>, NoTime)

\* dict.update
update(config, overrides) ==
    [k \in DOMAIN config \cup DOMAIN overrides |->
        IF k \in DOMAIN overrides THEN overrides[k] ELSE config[k]]

\* the dictionary save_config writes to config.json
config_data(project) ==
    [project_id |-> project.project_id, name |-> project.name,
     description |-> project.description, created_at |-> project.created_at,
     updated_at |-> project.updated_at, config |-> project.config,
     input_data |-> project.input_data,
     execution_status |-> project.execution_status,
     output_files |-> project.output_files]

NoFile == [has_config |-> FALSE, data |-> config_data(NoProject)]

Remove(f, k) == [x \in DOMAIN f \ {k} |-> f[x]]

Put(f, k, v) == [x \in DOMAIN f \cup {k} |-> IF x = k THEN v ELSE f[x]]

\* mkdir of the project folder, then save_config
create_project_structure(files, project) ==
    Put(files, project.project_path, [has_config |-> TRUE, data |-> config_data(project)])

\* the id uuid.uuid4() gives a record that is constructed without one
NewId == uuid4("9")

\* project_id or str(uuid.uuid4())
project_id_or_new(project_id) == IF project_id = <<>> THEN NewId ELSE project_id

load_from_config(files, project_path) ==
    IF ~files[project_path].has_config
    THEN [loaded |-> FALSE, project |-> NoProject]
    ELSE LET data == files[project_path].data
         IN  [loaded |-> TRUE,
              project |->
                 [ContentProject(data.name, data.description,
                                 project_id_or_new(data.project_id), NoTime)
                    EXCEPT !.created_at = data.created_at,
                           !.updated_at = data.updated_at,
                           !.config = data.config,
                           !.input_data = data.input_data,
                           !.execution_status = data.execution_status,
                           !.output_files = data.output_files,
                           !.project_path = project_path]]

_validate_project(project) ==
    /\ project.project_id # <<>>
    /\ project.name # <<>>
    /\ DOMAIN project.execution_status # {}
    /\ \A stage \in Stages : stage \in DOMAIN project.execution_status

_project_exists_on_filesystem(files, project) ==
    LET dir == expected_dir_name(project.project_id, project.name)
    IN  /\ dir \in DOMAIN files
        /\ files[dir].has_config

_cleanup_cache(files, c) ==
    LET existing_project_dirs == {d \in DOMAIN files : startswith(d, ProjectPrefix)}
        cached_ids_to_remove ==
            {id \in DOMAIN c :
                expected_dir_name(id, c[id].name) \notin existing_project_dirs}
    IN  [id \in DOMAIN c \ cached_ids_to_remove |-> c[id]]

\* The returns load_project can make: one per folder the scan may come to
\* first among those that end it.
load_project(files, c, project_id) ==
    LET cached == project_id \in DOMAIN c
        hit == cached /\ _project_exists_on_filesystem(files, c[project_id])
        c1 == IF cached /\ ~hit THEN Remove(c, project_id) ELSE c
        ending == {d \in DOMAIN files :
                     /\ contains(d, project_id)
                     /\ load_from_config(files, d).loaded
                     /\ load_from_config(files, d).project.project_id = project_id}
    IN  IF hit
        THEN {[cache |-> c, found |-> TRUE, project |-> c[project_id]]}
        ELSE IF ending = {}
        THEN {[cache |-> c1, found |-> FALSE, project |-> NoProject]}
        ELSE {LET project == load_from_config(files, d).project
              IN  IF _validate_project(project)
                  THEN [cache |-> Put(c1, project_id, project), found |-> TRUE,
                        project |-> project]
                  ELSE [cache |-> c1, found |-> FALSE, project |-> NoProject]
              : d \in ending}

minimal_project(project) ==
    [ContentProject(project.name, project.description, project.project_id, NoTime)
        EXCEPT !.created_at = project.created_at,
               !.updated_at = project.updated_at,
               !.execution_status = project.execution_status]

RECURSIVE sort_newest_first(_)
sort_newest_first(S) ==
    IF S = {}
    THEN <<>>
    ELSE LET p == CHOOSE x \in S : \A y \in S : y.created_at <= x.created_at
         IN  <<p>> \o sort_newest_first(S \ {p})

list_projects(files, c, include_details) ==
    LET c1 == _cleanup_cache(files, c)
        listed == {d \in DOMAIN files :
                     /\ startswith(d, ProjectPrefix)
                     /\ load_from_config(files, d).loaded
                     /\ _validate_project(load_from_config(files, d).project)}
        project(d) == load_from_config(files, d).project
        ids == {project(d).project_id : d \in listed}
        c2 == [id \in DOMAIN c1 \cup ids |->
                 IF id \in ids
                 THEN project(CHOOSE d \in listed : project(d).project_id = id)
                 ELSE c1[id]]
    IN  [cache |-> c2,
         projects |-> sort_newest_first(
             {IF include_details THEN project(d) ELSE minimal_project(project(d)) :
                d \in listed})]

delete_project(files, c, project_id) ==
    {IF ~r.found
     THEN [fs |-> files, cache |-> r.cache, ok |-> FALSE]
     ELSE [fs |-> IF r.project.project_path \in DOMAIN files
                  THEN Remove(files, r.project.project_path)
                  ELSE files,
           cache |-> Remove(r.cache, project_id),
           ok |-> TRUE]
     : r \in load_project(files, c, project_id)}

refresh_project(files, c, project_id) ==
    load_project(files, IF project_id \in DOMAIN c THEN Remove(c, project_id) ELSE c,
                 project_id)

\* any(query in keyword.lower() for keyword in seed_keywords)
any_keyword(query, seed_keywords) ==
    \E i \in 1..Len(seed_keywords) : contains(lower(seed_keywords[i]), query)

search_projects(files, c, query) ==
    LET listed == list_projects(files, c, FALSE)
        q == lower(query)
        matching(project) ==
            \/ contains(lower(project.name), q)
            \/ contains(lower(project.description), q)
            \/ any_keyword(q, project.input_data.seed_keywords)
    IN  [cache |-> listed.cache, projects |-> SelectSeq(listed.projects, matching)]

NoStoreCall ==
    [op |-> "none", project_id |-> <<>>, name |-> <<>>, query |-> <<>>,
     seed_keywords |-> <<>>,
     config_overrides |-> <<>>, ok |-> TRUE, project |-> NoProject, projects |-> <<>>]

InitStore ==
    /\ fs = [d \in {} |-> NoFile]
    /\ cache = [id \in {} |-> NoProject]
    /\ store_ret = NoStoreCall
    /\ used_ids = {}
    /\ deleted = {}

-----------------------------------------------------------------------------
(* The progress tracker (backend/utils/progress_tracker.py): callers in      *)
(* several threads, one lock, subscribers called back on every update.       *)

NoUpdate == [project_id |-> "", stage |-> "", progress |-> 0, timestamp |-> NoTime]

ProgressUpdate(project_id, stage, progress, timestamp) ==
    [project_id |-> project_id, stage |-> stage, progress |-> progress,
     timestamp |-> timestamp]

max(a, b) == IF a >= b THEN a ELSE b

min(a, b) == IF a <= b THEN a ELSE b

\* seeded fault: the value is stored as it is given
clamp_nothing(progress) == progress

\* max(0, min(100, progress))
clamp(progress) == max(0, min(100, progress))

NoStages == [s \in {} |-> NoUpdate]

NoProgress == [p \in {} |-> NoStages]

\* seeded fault: a lower value does not replace a higher one
store_keeps_highest(data, u) ==
    LET stored == IF u.project_id \in DOMAIN data THEN data[u.project_id] ELSE NoStages
    IN  IF u.stage \in DOMAIN stored /\ stored[u.stage].progress > u.progress
        THEN data
        ELSE Put(data, u.project_id, Put(stored, u.stage, u))

\* self._progress_data[project_id][stage] = progress_update
store(data, u) ==
    LET stored == IF u.project_id \in DOMAIN data THEN data[u.project_id] ELSE NoStages
    IN  Put(data, u.project_id, Put(stored, u.stage, u))

\* stage "" is stage=None: the most recent update of the project
get_progress(data, project_id, stage) ==
    IF project_id \notin DOMAIN data
    THEN NoUpdate
    ELSE IF stage # ""
    THEN IF stage \in DOMAIN data[project_id] THEN data[project_id][stage] ELSE NoUpdate
    ELSE IF DOMAIN data[project_id] # {}
    THEN LET latest == CHOOSE s \in DOMAIN data[project_id] :
                          \A o \in DOMAIN data[project_id] :
                             data[project_id][o].timestamp <= data[project_id][s].timestamp
         IN  data[project_id][latest]
    ELSE NoUpdate

clear_progress(data, project_id, stage) ==
    IF project_id \notin DOMAIN data
    THEN data
    ELSE IF stage # ""
    THEN [data EXCEPT ![project_id] =
             IF stage \in DOMAIN @ THEN Remove(@, stage) ELSE @]
    ELSE Remove(data, project_id)

\* cutoff_time = datetime.now() - time.timedelta(hours=max_age_hours): the
\* module time has no attribute timedelta, the call raises AttributeError
\* before the lock is taken
cleanup_completed(data, now, max_age_hours) ==
    [raised |-> "AttributeError", data |-> data]

Publishers == {"t1", "t2"}

Free == "free"

NotPublishing == [pc |-> "idle", arg |-> 0, update |-> NoUpdate, i |-> 0]

\* "plain" only reads the update it is given; "reenter" calls get_progress of
\* the tracker for the update's project
CallbackKinds == {"plain", "reenter"}

NoBusCall == [op |-> "none", arg |-> 0, raised |-> "", value |-> NoUpdate]

InitBus ==
    /\ progress_data = NoProgress
    /\ callbacks = <<>>
    /\ bus_lock = Free
    /\ publishers = [t \in Publishers |-> NotPublishing]
    /\ bus_clock = 0
    /\ bus_ret = NoBusCall

-----------------------------------------------------------------------------
(* Callers of the project record in several threads *)

Writers == {"t1", "t2"}

NotWriting ==
    [pc |-> "idle", buffer |-> Snapshot(InitialExecutionStatus, 0, InitialOutputFiles)]

InitWriters == writers = [t \in Writers |-> NotWriting]

\* PipelineExecutor.__init__: self.progress_callbacks = []
InitObservers == progress_callbacks = <<>>

-----------------------------------------------------------------------------
(* The engine, one caller *)

NoCall ==
    [op |-> "none", stage |-> "", force |-> FALSE, outcome |-> "none", fail_stage |-> "",
     success |-> TRUE, message |-> <<>>, outputs |-> <<>>, results |-> NoResults,
     trace |-> <<>>]

NoCanRun == [stage |-> "", ok |-> TRUE, reason |-> <<>>]

Threads == {"t1", "t2"}

Idle == [pc |-> "idle", queue |-> <<>>, force |-> FALSE, success |-> TRUE]

InitProject ==
    /\ execution_status = InitialExecutionStatus
    /\ updated_at = 0
    /\ output_files = InitialOutputFiles
    /\ config_json = Snapshot(InitialExecutionStatus, 0, InitialOutputFiles)
    /\ kw_file = FALSE
    /\ clock = 0

Init ==
    /\ InitProject
    /\ result = NoCall
    /\ can_run = NoCanRun
    /\ threads = [t \in Threads |-> Idle]
    /\ InitStore
    /\ InitBus
    /\ InitWriters
    /\ InitObservers

CurrentWorld ==
    [World(execution_status, updated_at, output_files, config_json, kw_file, <<>>)
        EXCEPT !.callbacks = progress_callbacks]

Commit(w) ==
    /\ execution_status' = w.es
    /\ updated_at' = w.updated_at
    /\ output_files' = w.output_files
    /\ config_json' = w.config_json
    /\ kw_file' = w.kw_file

ExecuteStage ==
    /\ clock < MaxClock
    /\ \E stage \in StageArgs, force \in BOOLEAN :
         \E outcome \in Outcomes(stage) :
            \E r \in {execute_stage(CurrentWorld, stage, force, outcome, clock + 1)} :
                /\ Commit(r.w)
                /\ result' = [op |-> "run_stage", stage |-> stage, force |-> force,
                              outcome |-> IF r.w.trace = <<>> THEN "none" ELSE outcome,
                              fail_stage |-> "",
                              success |-> r.result.success, message |-> r.result.message,
                              outputs |-> r.result.outputs,
                              results |-> NoResults, trace |-> r.w.trace]
    /\ clock' = clock + 1
    /\ UNCHANGED <<can_run, threads, store_vars, bus_vars, writer_vars, observer_vars, observer_vars>>

\* the executors' outcomes of one pipeline run that starts at the i-th stage:
\* every stage works, or one of the stages from the i-th on fails
PipelineFailures(i) ==
    {<<"", "ok">>} \cup
    UNION {{<<stages[k], f>> : f \in Failures(stages[k])} : k \in i..Len(stages)}

\* outputs: the scripts that work leave their expected output files behind
OutcomesOf(kf, outputs) ==
    [s \in Stages |->
        IF s = kf[1] THEN kf[2]
        ELSE IF outputs /\ "ok_outputs" \in Outcomes(s) THEN "ok_outputs" ELSE "ok"]

\* the files matter when the run, from its i-th stage on, gets past a stage
\* that records them
OutputChoices(i, kf) ==
    IF \E s \in Stages :
          /\ "ok_outputs" \in Outcomes(s)
          /\ StageIndex(s) >= i
          /\ kf[1] = "" \/ StageIndex(kf[1]) > StageIndex(s)
    THEN BOOLEAN
    ELSE {FALSE}

StartArgs == Stages \cup {"None"}

ExecuteFullPipeline ==
    /\ clock < MaxClock
    /\ \E start_stage \in StartArgs, force \in BOOLEAN :
         \E kf \in PipelineFailures(start_index(start_stage)) :
          \E outputs \in OutputChoices(start_index(start_stage), kf) :
            \E r \in {execute_full_pipeline(CurrentWorld, start_stage, force,
                                           OutcomesOf(kf, outputs), clock + 1)} :
                /\ Commit(r.w)
                /\ result' = [op |-> "run_pipeline", stage |-> start_stage,
                              force |-> force, outcome |-> kf[2], fail_stage |-> kf[1],
                              success |-> r.success, message |-> <<>>, outputs |-> <<>>,
                              results |-> r.results, trace |-> r.w.trace]
    /\ clock' = clock + 1
    /\ UNCHANGED <<can_run, threads, store_vars, bus_vars, writer_vars, observer_vars, observer_vars>>

Next == ExecuteStage \/ ExecuteFullPipeline

Spec == Init /\ [][Next]_vars

-----------------------------------------------------------------------------
(* can_execute_stage on every assignment of statuses *)

Statuses == {"pending", "running", "completed", "failed"}

InitCanRun ==
    /\ execution_status \in
          {[s \in Stages |-> [InitialStatus EXCEPT !.status = f[s]]] :
             f \in [Stages -> Statuses]}
    /\ updated_at = 0
    /\ output_files = InitialOutputFiles
    /\ config_json = Snapshot(execution_status, 0, InitialOutputFiles)
    /\ kw_file = FALSE
    /\ clock = 0
    /\ result = NoCall
    /\ can_run = NoCanRun
    /\ threads = [t \in Threads |-> Idle]
    /\ InitStore
    /\ InitBus
    /\ InitWriters
    /\ InitObservers

CanExecuteStage ==
    /\ \E stage \in StageArgs :
         LET r == can_execute_stage(execution_status, stage)
         IN  can_run' = [stage |-> stage, ok |-> r.ok, reason |-> r.reason]
    /\ UNCHANGED <<engine_vars, threads, store_vars, bus_vars, writer_vars, observer_vars, observer_vars>>

SpecCanRun == InitCanRun /\ [][CanExecuteStage]_vars

-----------------------------------------------------------------------------
(* Properties of the engine *)

\* The dependency table as the specification states it: every stage depends on
\* all stages before it, except that youtube_scripts does not depend on
\* social_media.
DependencySet(stage) ==
    {stages[j] : j \in 1..((IF StageIndex(stage) < 4 THEN StageIndex(stage) ELSE 4) - 1)}

FirstOf(S) == CHOOSE d \in S : \A e \in S : StageIndex(d) <= StageIndex(e)

ExecutorEvents(trace) == {i \in 1..Len(trace) : trace[i].ev = "executor"}

\* C1: in every reachable state a stage whose status is completed has every
\* stage of its dependency set completed.
C1_DependencyInvariant ==
    \A s \in Stages :
        execution_status[s].status = "completed" =>
            \A d \in DependencySet(s) : execution_status[d].status = "completed"

\* C2: run_stage on a completed stage without force returns success, invokes no
\* executor and leaves the stage's record, updated_at and the snapshot as they
\* were; as this holds for every such step, it holds for any number of calls.
C2_Idempotent ==
    [][\A s \in Stages :
          (/\ execution_status[s].status = "completed"
           /\ result'.op = "run_stage" /\ result'.stage = s /\ ~result'.force
           /\ clock' = clock + 1)
          => /\ result'.success
             /\ ExecutorEvents(result'.trace) = {}
             /\ execution_status'[s] = execution_status[s]
             /\ updated_at' = updated_at
             /\ config_json' = config_json]_vars

C2_Witness ==
    /\ result.op = "run_stage" /\ ~result.force /\ result.success
    /\ result.stage \in Stages
    /\ result.message = AlreadyCompleted(result.stage)
    /\ execution_status[result.stage].status = "completed"
    /\ execution_status[result.stage].completed_at < clock

\* C4: a pipeline run from the first stage on a project whose stages are all
\* pending, in which the executor of the k-th stage fails, leaves the stages
\* before k completed, stage k failed with an error message, the stages after k
\* pending with no executor invoked, and returns success = false with results
\* for exactly the stages 1..k.
C4_FailFast ==
    [][(/\ \A s \in Stages : execution_status[s].status = "pending"
        /\ result'.op = "run_pipeline" /\ start_index(result'.stage) = 1
        /\ result'.fail_stage # ""
        /\ clock' = clock + 1)
       => LET k == StageIndex(result'.fail_stage)
          IN  /\ \A j \in 1..(k - 1) : execution_status'[stages[j]].status = "completed"
              /\ execution_status'[stages[k]].status = "failed"
              /\ execution_status'[stages[k]].error # NoError
              /\ \A j \in (k + 1)..Len(stages) :
                    /\ execution_status'[stages[j]] = InitialStatus
                    /\ \A i \in 1..Len(result'.trace) :
                          result'.trace[i].stage # stages[j]
              /\ ~result'.success
              /\ DOMAIN result'.results = {stages[j] : j \in 1..k}
              /\ \A j \in 1..k : result'.results[stages[j]].success <=> j < k]_vars

C4_Witness ==
    /\ clock = 1
    /\ result.op = "run_pipeline" /\ result.stage = "None"
    /\ result.fail_stage = "article_writing" /\ ~result.success
    /\ execution_status["keyword_research"].status = "completed"
    /\ execution_status["content_briefs"].status = "completed"
    /\ execution_status["article_writing"].status = "failed"
    /\ execution_status["social_media"].status = "pending"
    /\ execution_status["youtube_scripts"].status = "pending"

\* C5: whenever run_stage consults the executor of one of the five stages and
\* the executor fails (returns false, raises, exits nonzero, times out, or its
\* script is missing), run_stage returns success = false with a message, and
\* the stage is failed with that message as its error.
C5_FailureIsResult ==
    [][(/\ result'.op = "run_stage" /\ result'.stage \in Stages
        /\ result'.outcome \in Failures(result'.stage)
        /\ clock' = clock + 1)
       => /\ ~result'.success
          /\ result'.message # <<>>
          /\ execution_status'[result'.stage].status = "failed"
          /\ execution_status'[result'.stage].error = result'.message]_vars

C5_Witness ==
    /\ result.op = "run_stage" /\ result.stage = "social_media"
    /\ result.outcome = "timeout" /\ ~result.success
    /\ execution_status["social_media"].status = "failed"
    /\ execution_status["social_media"].error = ScriptTimedOut

\* C6: run_stage on a stage that has a dependency which is not completed
\* returns a failure whose message names a blocking dependency stage.
C6_FailureNamesDependency ==
    [][(/\ result'.op = "run_stage" /\ result'.stage \in Stages
        /\ ~can_execute_stage(execution_status, result'.stage).ok
        /\ clock' = clock + 1)
       => /\ ~result'.success
          /\ \E d \in DependencySet(result'.stage) :
                /\ execution_status[d].status # "completed"
                /\ Mentions(result'.message, d)]_vars

\* the text of the message says that the execution timed out
SaysTimedOut(message) == \E i \in 1..Len(message) : message[i] = "Script execution timed out"

\* C23: when the executor of a stage runs into its time limit, run_stage
\* returns a failure whose message says that the execution timed out, and the
\* stage is failed with that message as its error.
C23_TimeoutIsFailure ==
    [][(/\ result'.op = "run_stage" /\ result'.stage \in Stages
        /\ result'.outcome = "timeout"
        /\ clock' = clock + 1)
       => /\ ~result'.success
          /\ SaysTimedOut(result'.message)
          /\ execution_status'[result'.stage].status = "failed"
          /\ execution_status'[result'.stage].error = result'.message]_vars

\* execution_status, output_files and updated_at are left as they were
RecordUnchanged ==
    /\ execution_status' = execution_status
    /\ output_files' = output_files
    /\ updated_at' = updated_at

\* C25: for a stage name that is none of the five, can_execute_stage does not
\* answer that the stage can run and run_stage returns a failure; neither
\* changes execution_status, output_files or updated_at, and no executor is
\* invoked.
C25_UnknownStageIsError ==
    [][/\ (can_run' # can_run /\ can_run'.stage \notin Stages)
          => /\ ~can_run'.ok
             /\ RecordUnchanged
       /\ (/\ result'.op = "run_stage" /\ result'.stage \notin Stages
           /\ clock' = clock + 1)
          => /\ ~result'.success
             /\ ExecutorEvents(result'.trace) = {}
             /\ RecordUnchanged]_vars

\* the status of a stage after the first k events of a call that found the
\* statuses es
StatusAfter(es, trace, k, stage) ==
    LET changes == {i \in 1..k : trace[i].ev = "status" /\ trace[i].stage = stage}
    IN  IF changes = {}
        THEN es[stage].status
        ELSE trace[CHOOSE i \in changes : \A j \in changes : j <= i].status

\* the transitions of a stage's status
Transition(from, to, force) ==
    \/ from = "pending" /\ to = "running"
    \/ from = "running" /\ to \in {"completed", "failed"}
    \/ from = "failed" /\ to = "running"
    \/ from = "completed" /\ to = "running" /\ force

\* C26: in every call of run_stage or run_pipeline each change of a stage's
\* status is one of pending -> running, running -> completed, running ->
\* failed, failed -> running and, with force, completed -> running; an
\* executor is invoked only while its stage is running; when run_stage returns
\* for one of the five stages, the stage is completed or failed, and success
\* is true exactly when it is completed.
C26_Transitions ==
    [][(result'.op \in {"run_stage", "run_pipeline"} /\ clock' = clock + 1)
       => LET trace == result'.trace
          IN  /\ \A k \in 1..Len(trace) :
                    /\ (trace[k].ev = "status" /\ trace[k].stage \in Stages)
                       => Transition(StatusAfter(execution_status, trace, k - 1,
                                                 trace[k].stage),
                                     trace[k].status, result'.force)
                    /\ trace[k].ev = "executor"
                       => StatusAfter(execution_status, trace, k - 1, trace[k].stage)
                             = "running"
              /\ \A s \in Stages :
                    execution_status'[s].status
                       = StatusAfter(execution_status, trace, Len(trace), s)
              /\ (result'.op = "run_stage" /\ result'.stage \in Stages)
                 => /\ execution_status'[result'.stage].status \in {"completed", "failed"}
                    /\ result'.success
                          <=> execution_status'[result'.stage].status = "completed"]_vars

\* a completed stage was run again with force and its executor failed
C26_Witness ==
    /\ result.op = "run_stage" /\ result.force /\ ~result.success
    /\ result.stage \in Stages
    /\ execution_status[result.stage].status = "failed"
    /\ execution_status[result.stage].completed_at # NoTime
    /\ ExecutorEvents(result.trace) # {}

\* the notifications of a progress value for a stage within a call
Notifications(trace, stage, progress) ==
    {i \in 1..Len(trace) : trace[i] = Event("notify", stage, "", progress)}

\* progress 0 is sent after the stage is set to running and before its executor
StartNotified(trace, stage) ==
    \A e \in ExecutorEvents(trace) :
        \E r \in 1..e, n \in Notifications(trace, stage, 0) :
            /\ trace[r] = Event("status", stage, "running", 0)
            /\ r < n /\ n < e

\* a notification of the progress value follows the executor
NotifiedAfterExecutor(trace, stage, progress) ==
    \E e \in ExecutorEvents(trace), n \in Notifications(trace, stage, progress) : e < n

\* C27: a run_stage that invokes the executor notifies progress 0 for the
\* stage after the status is set to running and before the executor; when the
\* executor succeeds, progress 100 for the stage is notified before run_stage
\* returns; when it fails, a failure (the error sentinel -1) is notified for
\* the stage before run_stage returns.
C27_ProgressEvents ==
    [][(/\ result'.op = "run_stage" /\ ExecutorEvents(result'.trace) # {}
        /\ clock' = clock + 1)
       => /\ StartNotified(result'.trace, result'.stage)
          /\ result'.success => NotifiedAfterExecutor(result'.trace, result'.stage, 100)
          /\ ~result'.success => NotifiedAfterExecutor(result'.trace, result'.stage, -1)]_vars

\* the statuses after the first k events of a call that found the statuses es
StatusesAfter(es, trace, k) ==
    [s \in DOMAIN es |-> [es[s] EXCEPT !.status = StatusAfter(es, trace, k, s)]]

\* C28: every notification for 'pipeline' that run_pipeline sends carries the
\* completion percentage of the project at that moment (completed stages by
\* all stages), whatever the start stage and whether or not a stage fails; a
\* final 100 is sent only when all five stages are completed.
C28_PipelineProgress ==
    [][(result'.op = "run_pipeline" /\ clock' = clock + 1)
       => \A k \in 1..Len(result'.trace) :
             (result'.trace[k].ev = "notify" /\ result'.trace[k].stage = "pipeline")
             => result'.trace[k].progress =
                   get_completion_percentage(
                      StatusesAfter(execution_status, result'.trace, k - 1))]_vars

\* the executor has written files: the in-process executors always do, a
\* script does when it leaves its expected output files behind
ProducedFiles(stage, outcome) ==
    \/ stage \in Stages \ SubprocessStages /\ outcome = "ok"
    \/ stage \in SubprocessStages /\ outcome = "ok_outputs"

\* C29: output_files has the five stage names of execution_status as its
\* keys, and a successful run_stage whose executor produced files records
\* them under the stage's name: the outputs of the result and the outputs of
\* get_stage_status are not empty, for article_writing and youtube_scripts as
\* for the other stages.
C29_OutputManifest ==
    [][(/\ result'.op = "run_stage" /\ result'.stage \in Stages
        /\ result'.success /\ ProducedFiles(result'.stage, result'.outcome)
        /\ clock' = clock + 1)
       => /\ DOMAIN output_files' = DOMAIN execution_status'
          /\ result'.stage \in DOMAIN output_files'
          /\ output_files'[result'.stage] # <<>>
          /\ result'.outputs # <<>>
          /\ get_stage_files([output_files |-> output_files', kw_file |-> kw_file'],
                             result'.stage) # <<>>]_vars

\* C30: in every state reached by calls of run_stage and run_pipeline a
\* completed stage has completed_at set and no error, a failed stage has an
\* error, and a pending stage has neither completed_at nor an error.
C30_StatusRecordConsistent ==
    \A s \in Stages :
        LET record == execution_status[s]
        IN  /\ record.status = "completed"
               => record.completed_at # NoTime /\ record.error = NoError
            /\ record.status = "failed" => record.error # NoError
            /\ record.status = "pending"
               => record.completed_at = NoTime /\ record.error = NoError

-----------------------------------------------------------------------------
(* Properties of can_execute_stage *)

\* C3: can_execute_stage answers true exactly when every stage of the
\* dependency set is completed; when false, the reason names the first
\* dependency that is not completed and no other; the answer for
\* youtube_scripts does not depend on social_media, and keyword_research can
\* always run.
C3_CanRun ==
    can_run.stage \in Stages =>
        LET s == can_run.stage
            unmet == {d \in DependencySet(s) : execution_status[d].status # "completed"}
        IN  /\ can_run.ok <=> unmet = {}
            /\ ~can_run.ok =>
                  /\ Mentions(can_run.reason, FirstOf(unmet))
                  /\ \A d \in Stages \ {FirstOf(unmet)} : ~Mentions(can_run.reason, d)
            /\ s = "keyword_research" => can_run.ok
            /\ s = "youtube_scripts" =>
                  \A x \in Statuses :
                     can_execute_stage(
                        [execution_status EXCEPT !["social_media"].status = x], s).ok
                     = can_run.ok

C3_Witness ==
    /\ can_run.stage = "social_media" /\ ~can_run.ok
    /\ execution_status["keyword_research"].status = "completed"
    /\ execution_status["content_briefs"].status = "running"
    /\ execution_status["article_writing"].status = "failed"
    /\ Mentions(can_run.reason, "content_briefs")

-----------------------------------------------------------------------------
(* The project record, called directly: update_stage_status,                 *)
(* add_output_file, save_config and load_from_config next to the engine's    *)
(* calls, with a config.json that cannot always be written.                  *)

\* the keys of output_files and the stage names the engine passes
OutputStageArgs == DOMAIN InitialOutputFiles \cup {"article_writing"}

FilePaths == {<<"posts.json">>, <<"article.md">>}

\* "ok": config.json is written; "open_fails": open(config_file, 'w') raises,
\* save_config catches it and returns False, the file stays as it was
WriteOutcomes == {"ok", "open_fails"}

\* what a mutating call leaves behind: the record as the call changed it, and
\* the file as save_config left it
written(before, after, io) ==
    IF io = "ok" THEN after ELSE [after EXCEPT !.config_json = before.config_json]

RecordCall(op, stage, io, success) ==
    [NoCall EXCEPT !.op = op, !.stage = stage, !.outcome = io, !.success = success]

UpdateStageStatus ==
    /\ clock < MaxClock
    /\ \E stage \in StageArgs, status \in Statuses, error \in {NoError, OtherError} :
         \E io \in IF stage \in DOMAIN execution_status THEN WriteOutcomes ELSE {"none"} :
            \E w \in {update_stage_status(CurrentWorld, stage, status, error, clock + 1)} :
                /\ Commit(written(CurrentWorld, w, io))
                /\ result' = RecordCall("update_stage_status", stage, io,
                                        stage \in DOMAIN execution_status)
    /\ clock' = clock + 1
    /\ UNCHANGED <<can_run, threads, store_vars, bus_vars, writer_vars, observer_vars, observer_vars>>

AddOutputFile ==
    /\ clock < MaxClock
    /\ \E stage \in OutputStageArgs, file_path \in FilePaths :
         \E io \in IF /\ stage \in DOMAIN output_files
                      /\ ~InList(file_path, output_files[stage])
                   THEN WriteOutcomes ELSE {"none"} :
            \E w \in {add_output_file(CurrentWorld, stage, file_path, clock + 1)} :
                /\ Commit(written(CurrentWorld, w, io))
                /\ result' = RecordCall("add_output_file", stage, io,
                                        stage \in DOMAIN output_files)
    /\ clock' = clock + 1
    /\ UNCHANGED <<can_run, threads, store_vars, bus_vars, writer_vars, observer_vars, observer_vars>>

SaveConfig ==
    /\ clock < MaxClock
    /\ \E io \in WriteOutcomes :
         /\ Commit(written(CurrentWorld, save_config(CurrentWorld), io))
         /\ result' = RecordCall("save_config", "", io, io = "ok")
    /\ clock' = clock + 1
    /\ UNCHANGED <<can_run, threads, store_vars, bus_vars, writer_vars, observer_vars, observer_vars>>

\* the caller drops its record and goes on with the one read from config.json
LoadFromConfig ==
    /\ clock < MaxClock
    /\ execution_status' = config_json.execution_status
    /\ updated_at' = config_json.updated_at
    /\ output_files' = config_json.output_files
    /\ result' = RecordCall("load_from_config", "", "none", TRUE)
    /\ clock' = clock + 1
    /\ UNCHANGED <<config_json, kw_file, can_run, threads, store_vars, bus_vars, writer_vars, observer_vars, observer_vars>>

NextRecord ==
    \/ ExecuteStage
    \/ ExecuteFullPipeline
    \/ UpdateStageStatus
    \/ AddOutputFile
    \/ SaveConfig
    \/ LoadFromConfig

SpecRecord == Init /\ [][NextRecord]_vars

-----------------------------------------------------------------------------
(* Properties of the project record *)

\* C12: after any sequence of run_stage, run_pipeline, update_stage_status
\* (with any stage name, unknown ones included), add_output_file, save_config
\* and load_from_config on a created record, execution_status has exactly the
\* five stage names as keys, each with a status in {pending, running,
\* completed, failed}; the same holds for the snapshot in config.json.
C12_StructuralInvariant ==
    /\ DOMAIN execution_status = Stages
    /\ \A s \in Stages : execution_status[s].status \in Statuses
    /\ DOMAIN config_json.execution_status = Stages
    /\ \A s \in Stages : config_json.execution_status[s].status \in Statuses

\* update_stage_status was called with a stage name that is not a key
C12_Witness ==
    /\ result.op = "update_stage_status"
    /\ result.stage \notin Stages
    /\ ~result.success
    /\ \E s \in Stages : execution_status[s].status # "pending"

\* C19: when config.json cannot be written during update_stage_status or
\* add_output_file, the call reports the failure and the record keeps the
\* execution_status and output_files it had before the call, so that the
\* record and config.json agree when the call has returned.
C19_FailedWriteIsNoCommit ==
    [][(/\ result'.op \in {"update_stage_status", "add_output_file"}
        /\ result'.outcome = "open_fails")
          => /\ ~result'.success
             /\ execution_status' = execution_status
             /\ output_files' = output_files
             /\ config_json' = Snapshot(execution_status', updated_at', output_files')]_vars

-----------------------------------------------------------------------------
(* The engine, callers in several threads on the same project.  A call is    *)
(* the stages it still has to run; execute_stage is cut where another        *)
(* thread can run in between: after the status is read, after it is set to   *)
(* running, and while the executor works.                                    *)

CurrentStage(t) == Head(threads[t].queue)

\* the thread is done with its current stage
Advance(t, success) ==
    LET rest == IF success THEN Tail(threads[t].queue) ELSE <<>>
    IN  threads' = [threads EXCEPT ![t] =
                      [pc |-> IF rest = <<>> THEN "idle" ELSE "check",
                       queue |-> rest, force |-> @.force, success |-> success]]

CallExecuteStage(t) ==
    /\ threads[t].pc = "idle"
    /\ clock < MaxClock
    /\ \E stage \in Stages, force \in BOOLEAN :
          threads' = [threads EXCEPT ![t] =
                        [pc |-> "check", queue |-> <<stage>>, force |-> force,
                         success |-> TRUE]]
    /\ clock' = clock + 1
    /\ UNCHANGED <<execution_status, updated_at, output_files, config_json, kw_file, result,
                   can_run,
                   store_vars, bus_vars, writer_vars, observer_vars, observer_vars>>

CallExecuteFullPipeline(t) ==
    /\ threads[t].pc = "idle"
    /\ clock < MaxClock
    /\ \E start_stage \in StartArgs, force \in BOOLEAN :
          threads' = [threads EXCEPT ![t] =
                        [pc |-> "check",
                         queue |-> SubSeq(stages, start_index(start_stage), Len(stages)),
                         force |-> force, success |-> TRUE]]
    /\ clock' = clock + 1
    /\ UNCHANGED <<execution_status, updated_at, output_files, config_json, kw_file, result,
                   can_run,
                   store_vars, bus_vars, writer_vars, observer_vars, observer_vars>>

\* lines 123-129
CheckStatus(t) ==
    /\ threads[t].pc = "check"
    /\ IF execution_status[CurrentStage(t)].status = "completed" /\ ~threads[t].force
       THEN Advance(t, TRUE)
       ELSE threads' = [threads EXCEPT ![t].pc = "set_running"]
    /\ UNCHANGED <<engine_vars, can_run, store_vars, bus_vars, writer_vars, observer_vars, observer_vars>>

\* lines 131-133
SetRunning(t) ==
    /\ threads[t].pc = "set_running"
    /\ Commit(set_running(CurrentWorld, CurrentStage(t), clock))
    /\ threads' = [threads EXCEPT ![t].pc = "dispatch"]
    /\ UNCHANGED <<clock, result, can_run, store_vars, bus_vars, writer_vars, observer_vars, observer_vars>>

\* lines 137-198: the executor is entered, unless the stage's script is missing
EnterExecutor(t) ==
    /\ threads[t].pc = "dispatch"
    /\ \/ /\ threads' = [threads EXCEPT ![t].pc = "executor"]
          /\ UNCHANGED <<execution_status, updated_at, output_files, config_json, kw_file>>
       \/ /\ "missing" \in Outcomes(CurrentStage(t))
          /\ \E r \in {invoke_executor(CurrentWorld, CurrentStage(t), "missing", clock)} :
                Commit(r.w) /\ Advance(t, r.result.success)
    /\ UNCHANGED <<clock, result, can_run, store_vars, bus_vars, writer_vars, observer_vars, observer_vars>>

\* the executor returns, lines 144-248
ExecutorReturns(t) ==
    /\ threads[t].pc = "executor"
    /\ \E outcome \in Outcomes(CurrentStage(t)) \ {"missing"} :
         \E r \in {invoke_executor(CurrentWorld, CurrentStage(t), outcome, clock)} :
            Commit(r.w) /\ Advance(t, r.result.success)
    /\ UNCHANGED <<clock, result, can_run, store_vars, bus_vars, writer_vars, observer_vars, observer_vars>>

NextThreads ==
    \E t \in Threads :
        \/ CallExecuteStage(t)
        \/ CallExecuteFullPipeline(t)
        \/ CheckStatus(t)
        \/ SetRunning(t)
        \/ EnterExecutor(t)
        \/ ExecutorReturns(t)

SpecThreads == Init /\ [][NextThreads]_vars

\* C7: the executor of a stage is never active in two threads at the same time.
C7_MutualExclusion ==
    \A t1, t2 \in Threads :
        (t1 # t2 /\ threads[t1].pc = "executor" /\ threads[t2].pc = "executor")
        => CurrentStage(t1) # CurrentStage(t2)

-----------------------------------------------------------------------------
(* The project store, one caller, and what happens to its directory from outside *)

Demo == <<"D", "e", "m", "o">>

Names == {Demo, <<"m", "y", " ", "p">>, <<"m", "y", "_", "p">>}

Descriptions == {<<"d">>}

NoOverrides == [k \in {} |-> ""]

\* the seed keywords and the configuration overrides a caller passes together
Inputs ==
    {[seed_keywords |-> <<>>, config_overrides |-> NoOverrides],
     [seed_keywords |-> <<<<"s", "e", "o">>>>,
      config_overrides |-> [content_generator |-> "openai"]]}

\* the ids a caller passes: those create_project has returned, and one it has not
IdArgs == used_ids \cup {UnknownId}

StoreCall(op, project_id) == [NoStoreCall EXCEPT !.op = op, !.project_id = project_id]

CreateProject ==
    /\ Cardinality(used_ids) < Len(Ids)
    /\ \E name \in Names, description \in Descriptions, input \in Inputs :
         LET project_id == Ids[Cardinality(used_ids) + 1]
             seed_keywords == input.seed_keywords
             config_overrides == input.config_overrides
             new == ContentProject(name, description, project_id,
                                   Cardinality(used_ids) + 1)
             project ==
                 [new EXCEPT
                    !.input_data =
                        IF seed_keywords # <<>>
                        THEN [new.input_data EXCEPT !.seed_keywords = seed_keywords]
                        ELSE new.input_data,
                    !.config =
                        IF DOMAIN config_overrides # {}
                        THEN update(new.config, config_overrides)
                        ELSE new.config,
                    !.project_path = project_folder_name(project_id, name)]
         IN  /\ fs' = create_project_structure(fs, project)
             /\ cache' = Put(cache, project_id, project)
             /\ store_ret' = [StoreCall("create", project_id) EXCEPT
                                 !.name = name, !.seed_keywords = seed_keywords,
                                 !.config_overrides = config_overrides,
                                 !.project = project]
             /\ used_ids' = used_ids \cup {project_id}
    /\ UNCHANGED <<engine_vars, can_run, threads, bus_vars, writer_vars, observer_vars, deleted>>

LoadProject ==
    /\ \E project_id \in IdArgs :
         \E r \in load_project(fs, cache, project_id) :
            /\ cache' = r.cache
            /\ store_ret' = [StoreCall("load", project_id) EXCEPT
                                !.ok = r.found, !.project = r.project]
    /\ UNCHANGED <<engine_vars, can_run, threads, bus_vars, writer_vars, observer_vars, fs, used_ids, deleted>>

RefreshProject ==
    /\ \E project_id \in IdArgs :
         \E r \in refresh_project(fs, cache, project_id) :
            /\ cache' = r.cache
            /\ store_ret' = [StoreCall("refresh", project_id) EXCEPT
                                !.ok = r.found, !.project = r.project]
    /\ UNCHANGED <<engine_vars, can_run, threads, bus_vars, writer_vars, observer_vars, fs, used_ids, deleted>>

ListProjects ==
    /\ \E include_details \in BOOLEAN :
         \E r \in {list_projects(fs, cache, include_details)} :
            /\ cache' = r.cache
            /\ store_ret' = [StoreCall("list", <<>>) EXCEPT !.projects = r.projects]
    /\ UNCHANGED <<engine_vars, can_run, threads, bus_vars, writer_vars, observer_vars, fs, used_ids, deleted>>

DeleteProject ==
    /\ \E project_id \in IdArgs :
         \E r \in delete_project(fs, cache, project_id) :
            /\ fs' = r.fs
            /\ cache' = r.cache
            /\ store_ret' = [StoreCall("delete", project_id) EXCEPT !.ok = r.ok]
            /\ deleted' = deleted \cup {project_id}
    /\ UNCHANGED <<engine_vars, can_run, threads, bus_vars, writer_vars, observer_vars, used_ids>>

\* cleanup_cache; a new ProjectManager over the same directory starts the same way
CleanupCache ==
    /\ cache' = [id \in {} |-> NoProject]
    /\ store_ret' = StoreCall("cleanup_cache", <<>>)
    /\ UNCHANGED <<engine_vars, can_run, threads, bus_vars, writer_vars, observer_vars, fs, used_ids, deleted>>

\* somebody else removes a project folder
RemoveDirExternally ==
    /\ \E d \in DOMAIN fs :
         /\ fs' = Remove(fs, d)
         /\ store_ret' = StoreCall("external_rmtree", <<>>)
    /\ UNCHANGED <<engine_vars, can_run, threads, bus_vars, writer_vars, observer_vars, cache, used_ids, deleted>>

\* somebody else removes a project's config.json
RemoveConfigExternally ==
    /\ \E d \in DOMAIN fs :
         /\ fs[d].has_config
         /\ fs' = [fs EXCEPT ![d] = NoFile]
         /\ store_ret' = StoreCall("external_unlink", <<>>)
    /\ UNCHANGED <<engine_vars, can_run, threads, bus_vars, writer_vars, observer_vars, cache, used_ids, deleted>>

NextStore ==
    \/ CreateProject
    \/ LoadProject
    \/ RefreshProject
    \/ ListProjects
    \/ DeleteProject
    \/ CleanupCache
    \/ RemoveDirExternally
    \/ RemoveConfigExternally

SpecStore == Init /\ [][NextStore]_vars

-----------------------------------------------------------------------------
(* Properties of the project store *)

\* a valid snapshot of the project is in a folder of the base directory
OnDisk(project_id) ==
    \E d \in DOMAIN fs :
        /\ load_from_config(fs, d).loaded
        /\ load_from_config(fs, d).project.project_id = project_id
        /\ _validate_project(load_from_config(fs, d).project)

RoundTripFields ==
    {"project_id", "name", "description", "created_at", "config", "input_data",
     "execution_status", "output_files"}

\* C8: a load of the id that create has just returned, on the same store,
\* returns a record, and its id, name, description, created_at, config,
\* input_data, execution_status and output_files are those of the record that
\* create returned.
C8_RoundTrip ==
    [][(/\ store_ret.op = "create"
        /\ store_ret'.op = "load"
        /\ store_ret'.project_id = store_ret.project_id)
       => (/\ store_ret'.ok
           /\ \A f \in RoundTripFields : store_ret'.project[f] = store_ret.project[f])]_vars

\* C9: a load (or a refresh) of an id that is not in the cache, while a folder
\* of the base directory holds a valid snapshot of that project, returns the
\* record and leaves it in the cache.
C9_LoadOnCacheMiss ==
    [][(/\ \/ store_ret'.op = "load" /\ store_ret'.project_id \notin DOMAIN cache
           \/ store_ret'.op = "refresh"
        /\ OnDisk(store_ret'.project_id))
       => (/\ store_ret'.ok
           /\ store_ret'.project.project_id = store_ret'.project_id
           /\ store_ret'.project_id \in DOMAIN cache'
           /\ cache'[store_ret'.project_id] = store_ret'.project)]_vars

\* C10: once delete_project(id) has returned, no load of id returns a record.
C10_NotFoundAfterDelete ==
    (store_ret.op = "load" /\ store_ret.project_id \in deleted) => ~store_ret.ok

\* C11: the folder name the cache checks (_project_exists_on_filesystem and
\* _cleanup_cache) expect for a project is the folder name project_folder_name
\* gave it when create_project wrote it to disk, for every id and name.
C11_SameFolderName ==
    store_ret.op = "create"
        => /\ expected_dir_name(store_ret.project_id, store_ret.name)
                = project_folder_name(store_ret.project_id, store_ret.name)
           /\ expected_dir_name(store_ret.project_id, store_ret.name) \in DOMAIN fs

\* a folder of the directory holds a snapshot of the project
HasFolder(files, project_id) ==
    \E d \in DOMAIN files : files[d].data.project_id = project_id

Others(c, project_id) == [id \in DOMAIN c \ {project_id} |-> c[id]]

\* C22: delete_project(id) of a project that is on disk, cached or not,
\* removes its folder and its cache entry and returns True; for an id that has
\* no project on disk it returns False and leaves the directory and the cache
\* entries of the other projects as they were.  (A second delete after a
\* successful one is a delete of an id that has no project.)
C22_Delete ==
    [][store_ret'.op = "delete"
          => IF OnDisk(store_ret'.project_id)
             THEN /\ store_ret'.ok
                  /\ ~HasFolder(fs', store_ret'.project_id)
                  /\ store_ret'.project_id \notin DOMAIN cache'
             ELSE /\ ~store_ret'.ok
                  /\ fs' = fs
                  /\ Others(cache', store_ret'.project_id)
                        = Others(cache, store_ret'.project_id)]_vars

-----------------------------------------------------------------------------
(* The project store over a base directory that already holds folders: one   *)
(* written by create_project and one whose config.json was written by hand.  *)

SnapshotKinds == {"valid", "missing_key", "extra_key", "empty_id", "empty_name"}

CreatedProject ==
    [ContentProject(Demo, <<"d">>, Ids[1], 1)
        EXCEPT !.project_path = project_folder_name(Ids[1], Demo)]

HandWrittenName == <<"x">>

HandWrittenDir == project_folder_name(Ids[2], HandWrittenName)

hand_written(kind) ==
    LET data == config_data(ContentProject(HandWrittenName, <<"d">>, Ids[2], 2))
    IN  CASE kind = "missing_key" ->
               [data EXCEPT !.execution_status = Remove(@, "youtube_scripts")]
          [] kind = "extra_key" ->
               [data EXCEPT !.execution_status = Put(@, "publishing", InitialStatus)]
          [] kind = "empty_id" -> [data EXCEPT !.project_id = <<>>]
          [] kind = "empty_name" -> [data EXCEPT !.name = <<>>]
          [] OTHER -> data

InitSnapshots ==
    /\ InitProject
    /\ result = NoCall
    /\ can_run = NoCanRun
    /\ threads = [t \in Threads |-> Idle]
    /\ \E kind \in SnapshotKinds :
         fs = Put(create_project_structure([d \in {} |-> NoFile], CreatedProject),
                  HandWrittenDir, [has_config |-> TRUE, data |-> hand_written(kind)])
    /\ cache = [id \in {} |-> NoProject]
    /\ store_ret = NoStoreCall
    /\ used_ids = {Ids[1], Ids[2]}
    /\ deleted = {}
    /\ InitBus
    /\ InitWriters
    /\ InitObservers

NextSnapshots ==
    \/ ListProjects
    \/ LoadProject
    \/ RefreshProject
    \/ DeleteProject
    \/ CleanupCache

SpecSnapshots == InitSnapshots /\ [][NextSnapshots]_vars

\* a snapshot as the specification wants it: a non-empty id and name and
\* exactly the five stage names as keys of execution_status
WellFormed(data) ==
    /\ data.project_id # <<>>
    /\ data.name # <<>>
    /\ DOMAIN data.execution_status = Stages

\* the base directory holds a well-formed snapshot of the project
WellFormedOnDisk(project_id) ==
    \E d \in DOMAIN fs :
        /\ fs[d].has_config
        /\ WellFormed(fs[d].data)
        /\ fs[d].data.project_id = project_id

\* C13: a snapshot on disk whose execution_status has not exactly the five
\* stage names as keys (one missing, or one more), or whose id or name is
\* empty, is never returned by load_project or refresh_project and is in no
\* result of list_projects, while every well-formed snapshot of the same base
\* directory is in the list.
C13_InvalidSnapshotsRejected ==
    /\ store_ret.op \in {"load", "refresh"} /\ store_ret.ok
          => /\ WellFormed(store_ret.project)
             /\ WellFormedOnDisk(store_ret.project.project_id)
    /\ store_ret.op = "list"
          => /\ \A i \in 1..Len(store_ret.projects) :
                   /\ WellFormed(store_ret.projects[i])
                   /\ WellFormedOnDisk(store_ret.projects[i].project_id)
             /\ \A d \in DOMAIN fs :
                   fs[d].has_config /\ WellFormed(fs[d].data)
                      => \E i \in 1..Len(store_ret.projects) :
                            store_ret.projects[i].project_id = fs[d].data.project_id

-----------------------------------------------------------------------------
(* The progress tracker: its calls *)

BusProjects == {"p1", "p2"}

BusStages == {"keyword_research", "content_briefs"}

\* the operations that report progress: two stages of one project and one of
\* another
Operations ==
    {<<"p1", "keyword_research">>, <<"p1", "content_briefs">>, <<"p2", "keyword_research">>}

\* the error sentinel (below the range), inside the range, above the range
ProgressArgs == {-1, 30, 150}

SomeoneIdle == \E t \in Publishers : publishers[t].pc = "idle"

\* update_progress, up to `with self._lock`: the update is built.  The threads
\* are interchangeable: the second one is needed only while the first is in a
\* call.
UpdateProgress(t) ==
    /\ publishers[t].pc = "idle"
    /\ t = "t1" \/ publishers["t1"].pc # "idle"
    /\ bus_clock < MaxPublishes
    /\ \E operation \in Operations, progress \in ProgressArgs :
         publishers' = [publishers EXCEPT ![t] =
             [pc |-> "lock", arg |-> progress,
              update |-> ProgressUpdate(operation[1], operation[2], clamp(progress),
                                        bus_clock + 1),
              i |-> 0]]
    /\ bus_clock' = bus_clock + 1
    /\ UNCHANGED <<progress_data, callbacks, bus_lock, bus_ret>>
    /\ UNCHANGED <<engine_vars, can_run, threads, store_vars, writer_vars, observer_vars>>

\* `with self._lock` is entered: by update_progress, which stores the update,
\* or by the get_progress a callback has called
TakeLock(t) ==
    /\ publishers[t].pc \in {"lock", "callback_lock"}
    /\ bus_lock = Free
    /\ IF publishers[t].pc = "lock"
       THEN /\ bus_lock' = t
            /\ progress_data' = store(progress_data, publishers[t].update)
            /\ publishers' = [publishers EXCEPT ![t].pc = "notify", ![t].i = 1]
            /\ UNCHANGED bus_ret
       ELSE /\ bus_ret' = [NoBusCall EXCEPT
                             !.op = "get_progress",
                             !.value = get_progress(progress_data,
                                                    publishers[t].update.project_id, "")]
            /\ publishers' = [publishers EXCEPT ![t].pc = "notify", ![t].i = @ + 1]
            /\ UNCHANGED <<bus_lock, progress_data>>
    /\ UNCHANGED <<callbacks, bus_clock>>
    /\ UNCHANGED <<engine_vars, can_run, threads, store_vars, writer_vars, observer_vars>>

\* for callback in self._callbacks: callback(progress_update), inside the lock
\* and inside try/except Exception: after a callback that returns or raises
\* the loop goes on; a callback that calls get_progress waits for the lock
Notify(t) ==
    /\ publishers[t].pc = "notify"
    /\ publishers[t].i <= Len(callbacks)
    /\ publishers' = [publishers EXCEPT ![t] =
          IF callbacks[@.i] \in ObserverKinds
          THEN [@ EXCEPT !.i = @ + 1]
          ELSE [@ EXCEPT !.pc = "callback_lock"]]
    /\ UNCHANGED <<progress_data, callbacks, bus_lock, bus_clock, bus_ret>>
    /\ UNCHANGED <<engine_vars, can_run, threads, store_vars, writer_vars, observer_vars>>

\* the with block of update_progress is left
ReleaseLock(t) ==
    /\ publishers[t].pc = "notify"
    /\ publishers[t].i > Len(callbacks)
    /\ bus_lock' = Free
    /\ publishers' = [publishers EXCEPT ![t] = NotPublishing]
    /\ UNCHANGED <<progress_data, callbacks, bus_clock, bus_ret>>
    /\ UNCHANGED <<engine_vars, can_run, threads, store_vars, writer_vars, observer_vars>>

\* a callback is subscribed once
Subscribe(callback) ==
    /\ SomeoneIdle
    /\ bus_lock = Free
    /\ ~InList(callback, callbacks)
    /\ callbacks' = Append(callbacks, callback)
    /\ UNCHANGED <<progress_data, bus_lock, publishers, bus_clock, bus_ret>>
    /\ UNCHANGED <<engine_vars, can_run, threads, store_vars, writer_vars, observer_vars>>

AddCallback == \E callback \in CallbackKinds : Subscribe(callback)

RemoveCallback ==
    /\ SomeoneIdle
    /\ bus_lock = Free
    /\ \E callback \in CallbackKinds :
         callbacks' = SelectSeq(callbacks, LAMBDA c : c # callback)
    /\ UNCHANGED <<progress_data, bus_lock, publishers, bus_clock, bus_ret>>
    /\ UNCHANGED <<engine_vars, can_run, threads, store_vars, writer_vars, observer_vars>>

GetProgress ==
    /\ SomeoneIdle
    /\ bus_lock = Free
    /\ \E project_id \in BusProjects, stage \in BusStages \cup {""} :
         bus_ret' = [NoBusCall EXCEPT
                       !.op = "get_progress",
                       !.value = get_progress(progress_data, project_id, stage)]
    /\ UNCHANGED <<progress_data, callbacks, bus_lock, publishers, bus_clock>>
    /\ UNCHANGED <<engine_vars, can_run, threads, store_vars, writer_vars, observer_vars>>

ClearProgress ==
    /\ SomeoneIdle
    /\ bus_lock = Free
    /\ \E project_id \in BusProjects, stage \in BusStages \cup {""} :
         progress_data' = clear_progress(progress_data, project_id, stage)
    /\ UNCHANGED <<callbacks, bus_lock, publishers, bus_clock, bus_ret>>
    /\ UNCHANGED <<engine_vars, can_run, threads, store_vars, writer_vars, observer_vars>>

\* max_age_hours, in ticks of the tracker's clock
MaxAgeHours == {0, 1}

CleanupCompleted ==
    /\ SomeoneIdle
    /\ \E max_age_hours \in MaxAgeHours :
         \E r \in {cleanup_completed(progress_data, bus_clock, max_age_hours)} :
            /\ progress_data' = r.data
            /\ bus_ret' = [NoBusCall EXCEPT !.op = "cleanup_completed",
                                            !.arg = max_age_hours,
                                            !.raised = r.raised]
    /\ UNCHANGED <<callbacks, bus_lock, publishers, bus_clock>>
    /\ UNCHANGED <<engine_vars, can_run, threads, store_vars, writer_vars, observer_vars>>

NextBus ==
    \/ \E t \in Publishers : UpdateProgress(t)
    \/ \E t \in Publishers : TakeLock(t)
    \/ \E t \in Publishers : Notify(t)
    \/ \E t \in Publishers : ReleaseLock(t)
    \/ AddCallback
    \/ RemoveCallback
    \/ GetProgress
    \/ ClearProgress
    \/ CleanupCompleted

SpecBus == Init /\ [][NextBus]_vars

-----------------------------------------------------------------------------
(* Properties of the progress tracker *)

\* the update the tracker holds for a project and a stage
Stored(project_id, stage) == get_progress(progress_data, project_id, stage)

\* C14: update_progress does not hold the lock while it calls the callbacks,
\* so a callback that calls the tracker again gets the lock and returns: no
\* thread is ever waiting for a lock that it holds itself, which would block
\* it, and every other caller of the tracker, forever.
C14_NoThreadWaitsForItsOwnLock ==
    \A t \in Publishers : ~(publishers[t].pc = "callback_lock" /\ bus_lock = t)

\* C15: every update the tracker holds and every update given to a callback
\* has its progress in 0..100; a value above 100 has become 100 and a value
\* below 0 has become 0.
C15_Clamped ==
    /\ \A p \in DOMAIN progress_data : \A s \in DOMAIN progress_data[p] :
          progress_data[p][s].progress \in 0..100
    /\ \A t \in Publishers :
          publishers[t].pc # "idle"
             => /\ publishers[t].update.progress \in 0..100
                /\ publishers[t].arg > 100 => publishers[t].update.progress = 100
                /\ publishers[t].arg < 0 => publishers[t].update.progress = 0
                /\ publishers[t].arg \in 0..100
                      => publishers[t].update.progress = publishers[t].arg

\* an update published with 150 is held as 100 and the first callback has
\* been given it
C15_Witness ==
    \E t \in Publishers :
        /\ publishers[t].pc = "notify"
        /\ publishers[t].i > 1
        /\ callbacks[1] = "plain"
        /\ publishers[t].arg = 150
        /\ Stored(publishers[t].update.project_id, publishers[t].update.stage).progress = 100

\* C16: an update published with progress -1, the error sentinel, is held and
\* given to the callbacks with progress -1, not clamped.
C16_ErrorSentinelKept ==
    \A t \in Publishers :
        publishers[t].pc = "notify" /\ publishers[t].arg = -1
           => /\ publishers[t].update.progress = -1
              /\ Stored(publishers[t].update.project_id,
                        publishers[t].update.stage).progress = -1

\* C17: the update_progress that takes the lock puts its update in the place
\* of the one held for the same project and stage, whatever the two values
\* are, and leaves the updates of every other project and stage as they were.
C17_LastWriterWins ==
    [][\A t \in Publishers :
          publishers[t].pc = "lock" /\ publishers'[t].pc = "notify"
             => /\ get_progress(progress_data', publishers[t].update.project_id,
                                publishers[t].update.stage) = publishers[t].update
                /\ \A p \in BusProjects, s \in BusStages :
                      <<p, s>> # <<publishers[t].update.project_id,
                                  publishers[t].update.stage>>
                         => get_progress(progress_data', p, s) = Stored(p, s)]_vars

\* get_progress returned an update of 100, and a later update of 30 for the
\* same project and stage is now held in its place
C17_Witness ==
    /\ bus_ret.op = "get_progress"
    /\ bus_ret.value.progress = 100
    /\ Stored(bus_ret.value.project_id, bus_ret.value.stage).progress = 30
    /\ Stored(bus_ret.value.project_id, bus_ret.value.stage).timestamp
          > bus_ret.value.timestamp

\* what is left of the tracker's data when the updates of 100 and more that
\* are older than the cutoff are taken out, and with them the projects that
\* have no update left
evict_older_than(data, cutoff) ==
    LET kept(p) == {s \in DOMAIN data[p] :
                      ~(data[p][s].progress >= 100 /\ data[p][s].timestamp < cutoff)}
    IN  [p \in {q \in DOMAIN data : kept(q) # {}} |-> [s \in kept(p) |-> data[p][s]]]

\* C18: cleanup_completed(max_age_hours) removes exactly the updates with
\* progress >= 100 that are older than max_age_hours, keeps every update with
\* progress < 100, drops the projects left without an update, and returns
\* normally.
C18_EvictOlderThan ==
    [][bus_ret.op # "cleanup_completed" /\ bus_ret'.op = "cleanup_completed"
          => /\ bus_ret'.raised = ""
             /\ progress_data' = evict_older_than(progress_data, bus_clock - bus_ret'.arg)]_vars

-----------------------------------------------------------------------------
(* Two threads on the same project record.  A call is cut where another      *)
(* thread can run in between: after the record is changed, and inside        *)
(* save_config after json.dump has read the record into the buffer of the    *)
(* open file and before the file is closed.                                   *)

WriterStages == {"keyword_research", "social_media"}

WriterStatuses == {"running", "completed"}

\* update_stage_status, up to the call of save_config
UpdateStageStatusChanges(t) ==
    /\ writers[t].pc = "idle"
    /\ clock < MaxClock
    /\ \E stage \in WriterStages, status \in WriterStatuses :
         \E w \in {update_stage_status(CurrentWorld, stage, status, NoError, clock + 1)} :
            /\ execution_status' = w.es
            /\ updated_at' = w.updated_at
    /\ writers' = [writers EXCEPT ![t].pc = "save_config"]
    /\ clock' = clock + 1
    /\ UNCHANGED <<output_files, config_json, kw_file, result>>
    /\ UNCHANGED <<can_run, threads, store_vars, bus_vars, observer_vars>>

\* add_output_file, up to the call of save_config; it returns without one
\* when the stage is no key of output_files or the path is already there
AddOutputFileChanges(t) ==
    /\ writers[t].pc = "idle"
    /\ clock < MaxClock
    /\ \E stage \in OutputStageArgs, file_path \in FilePaths :
         \E w \in {add_output_file(CurrentWorld, stage, file_path, clock + 1)} :
            /\ output_files' = w.output_files
            /\ updated_at' = w.updated_at
            /\ writers' = [writers EXCEPT ![t].pc =
                              IF w.output_files # output_files
                              THEN "save_config" ELSE "idle"]
    /\ clock' = clock + 1
    /\ UNCHANGED <<execution_status, config_json, kw_file, result>>
    /\ UNCHANGED <<can_run, threads, store_vars, bus_vars, observer_vars>>

\* save_config: open(config_file, 'w') and json.dump(config_data, f)
Dump(t) ==
    /\ writers[t].pc = "save_config"
    /\ writers' = [writers EXCEPT
                     ![t].pc = "close",
                     ![t].buffer = Snapshot(execution_status, updated_at, output_files)]
    /\ UNCHANGED <<engine_vars, can_run, threads, store_vars, bus_vars, observer_vars>>

\* save_config: the with block is left, the buffer goes to the file
Close(t) ==
    /\ writers[t].pc = "close"
    /\ config_json' = writers[t].buffer
    /\ writers' = [writers EXCEPT ![t] = NotWriting]
    /\ UNCHANGED <<execution_status, updated_at, output_files, kw_file, clock, result>>
    /\ UNCHANGED <<can_run, threads, store_vars, bus_vars, observer_vars>>

\* one thread makes the status transitions, the other registers output files
NextWriters ==
    \/ UpdateStageStatusChanges("t1")
    \/ AddOutputFileChanges("t2")
    \/ \E t \in Writers : Dump(t)
    \/ \E t \in Writers : Close(t)

SpecWriters == Init /\ [][NextWriters]_vars

\* C20: when two threads change the same record, one by update_stage_status
\* and one by add_output_file, each followed by its save_config, the writes
\* are serialized: once both calls have returned, config.json holds both
\* changes, that is, the record as it is in memory.
C20_NoLostUpdate ==
    (\A t \in Writers : writers[t].pc = "idle")
        => config_json = Snapshot(execution_status, updated_at, output_files)

-----------------------------------------------------------------------------
(* The project store: search_projects *)

Queries ==
    {<<"s", "e", "o">>, <<"S", "E">>, <<"m", "y">>, <<"D">>, <<"z">>}

SearchProjects ==
    /\ \E query \in Queries :
         \E r \in {search_projects(fs, cache, query)} :
            /\ cache' = r.cache
            /\ store_ret' = [StoreCall("search", <<>>) EXCEPT
                                !.query = query, !.projects = r.projects]
    /\ UNCHANGED <<engine_vars, can_run, threads, bus_vars, writer_vars, observer_vars, fs, used_ids, deleted>>

NextSearch ==
    \/ CreateProject
    \/ SearchProjects
    \/ DeleteProject
    \/ RemoveConfigExternally

SpecSearch == Init /\ [][NextSearch]_vars

\* the query is, whatever the case of the letters, part of the name, of the
\* description or of one of the seed keywords of the snapshot
Matches(data, query) ==
    \/ contains(lower(data.name), lower(query))
    \/ contains(lower(data.description), lower(query))
    \/ \E i \in 1..Len(data.input_data.seed_keywords) :
          contains(lower(data.input_data.seed_keywords[i]), lower(query))

\* C21: search_projects(query) returns every valid project of the base
\* directory for which the query is a case-insensitive substring of the name,
\* of the description or of one of the seed keywords, and no other project.
C21_SearchMatches ==
    store_ret.op = "search"
       => {store_ret.projects[i].project_id : i \in 1..Len(store_ret.projects)}
             = {fs[d].data.project_id :
                  d \in {e \in DOMAIN fs :
                           /\ fs[e].has_config
                           /\ OnDisk(fs[e].data.project_id)
                           /\ Matches(fs[e].data, store_ret.query)}}

-----------------------------------------------------------------------------
(* Observers: callbacks of the engine and subscribers of the tracker that raise *)

\* add_progress_callback; a callback of each kind is registered once
AddProgressCallback ==
    /\ \E callback \in ObserverKinds :
         /\ ~InList(callback, progress_callbacks)
         /\ progress_callbacks' = Append(progress_callbacks, callback)
    /\ UNCHANGED <<engine_vars, can_run, threads, store_vars, bus_vars, writer_vars>>

AddSubscriber == \E callback \in ObserverKinds : Subscribe(callback)

EngineAtRest == clock = 0 /\ progress_callbacks = <<>>

TrackerAtRest == bus_clock = 0 /\ callbacks = <<>>

\* The engine and the tracker share no state: a behaviour of one of them is a
\* behaviour of the pair in which the other one rests, and these are the
\* behaviours explored. The tracker has one caller.
NextObservers ==
    \/ TrackerAtRest /\ AddProgressCallback
    \/ TrackerAtRest /\ ExecuteStage
    \/ EngineAtRest /\ AddSubscriber
    \/ EngineAtRest /\ UpdateProgress("t1")
    \/ EngineAtRest /\ TakeLock("t1")
    \/ EngineAtRest /\ Notify("t1")
    \/ EngineAtRest /\ ReleaseLock("t1")

SpecObservers == Init /\ [][NextObservers]_vars

\* the events of a call other than the calls of callbacks
WithoutCallbacks(trace) == SelectSeq(trace, LAMBDA e : e.ev # "callback")

\* every notification in the trace is followed by a call of each registered
\* callback, in the order of registration, with the notification's stage and
\* progress
EveryCallbackNotified(trace, registered) ==
    \A k \in 1..Len(trace) :
        trace[k].ev = "notify" =>
            /\ k + Len(registered) <= Len(trace)
            /\ \A j \in 1..Len(registered) :
                  trace[k + j] =
                     Event("callback", trace[k].stage, registered[j], trace[k].progress)

\* C24: an exception raised by a callback of the engine or by a subscriber of
\* the tracker is caught. Every run_stage notifies each registered callback of
\* each of its events, those after a raising callback included, does apart
\* from that what it does with no callback registered, and ends with the same
\* result, statuses, files and snapshot; the tracker goes on from a subscriber
\* that returned or raised to the next one with the same update and keeps what
\* it has stored.
C24_ObserverIsolation ==
    [][/\ (result'.op = "run_stage" /\ clock' = clock + 1)
          => LET alone == execute_stage([CurrentWorld EXCEPT !.callbacks = <<>>],
                                        result'.stage, result'.force, result'.outcome,
                                        clock + 1)
             IN  /\ EveryCallbackNotified(result'.trace, progress_callbacks)
                 /\ WithoutCallbacks(result'.trace) = alone.w.trace
                 /\ result'.success = alone.result.success
                 /\ result'.message = alone.result.message
                 /\ result'.outputs = alone.result.outputs
                 /\ execution_status' = alone.w.es
                 /\ output_files' = alone.w.output_files
                 /\ config_json' = alone.w.config_json
       /\ \A t \in Publishers :
            (/\ publishers[t].pc = "notify"
             /\ publishers[t].i <= Len(callbacks)
             /\ callbacks[publishers[t].i] \in ObserverKinds
             /\ publishers'[t] # publishers[t])
            => /\ publishers'[t] = [publishers[t] EXCEPT !.i = @ + 1]
               /\ progress_data' = progress_data]_vars

\* a stage has completed although the first of the two callbacks raised at
\* every event, and the second one was told of the stage's progress 100
C24_Witness ==
    /\ progress_callbacks = <<"raises", "plain">>
    /\ result.op = "run_stage" /\ result.success
    /\ execution_status[result.stage].status = "completed"
    /\ \E k \in 2..Len(result.trace) :
          /\ result.trace[k - 1] = Event("callback", result.stage, "raises", 100)
          /\ result.trace[k] = Event("callback", result.stage, "plain", 100)

====
